---- MODULE Spec2Model ----
(***************************************************************************)
(* A model of API_Filemaster.py: RESTClient (URL building, one HTTP        *)
(* request per call, error translation, JSON decoding), UserManager (the   *)
(* five pass-through operations) and OutputFile (whole-file text I/O).     *)
(*                                                                         *)
(* Python strings are sequences of one-character strings, so that URL      *)
(* encoding, f-string formatting and newline translation are computed and  *)
(* not assumed.  A Python dict is a sequence of [k, v] entries with unique *)
(* keys, in insertion order.                                               *)
(***************************************************************************)
EXTENDS Integers, Sequences, FiniteSets, TLC

VARIABLES
    base_url,      \* RESTClient.base_url
    api_key,       \* RESTClient.api_key
    callerParams,  \* the dict object the caller of get() holds and passes
    sent,          \* every HTTP request handed to requests.request, in order
    ncalls,        \* number of completed calls of a public operation
    last,          \* the last call: operation, arguments, network, outcome
    os_linesep,    \* os.linesep of the platform the program runs on
    disk,          \* the file at OutputFile.file_path: [exists, bytes]
    written,       \* the string of the last write_data that returned normally
    flast          \* the last OutputFile call: operation, argument, outcome

vars == <<base_url, api_key, callerParams, sent, ncalls, last,
          os_linesep, disk, written, flast>>

httpVars == <<base_url, api_key, callerParams, sent, ncalls, last>>
fileVars == <<os_linesep, disk, written, flast>>

(***************************************************************************)
(* Bounds                                                                  *)
(***************************************************************************)
MaxCalls == 2      \* calls of RESTClient / UserManager operations in a run
MaxLen == 2        \* length of a string given to write_data

(***************************************************************************)
(* Strings                                                                 *)
(***************************************************************************)
S_users == <<"u", "s", "e", "r", "s">>
S_api_key == <<"a", "p", "i", "_", "k", "e", "y">>
S_page == <<"p", "a", "g", "e">>
S_per_page == <<"p", "e", "r", "_", "p", "a", "g", "e">>
S_q == <<"q">>

Digits == <<"0", "1", "2", "3", "4", "5", "6", "7", "8", "9">>

\* str(n) for a non-negative int
RECURSIVE IntToStr(_)
IntToStr(n) ==
    IF n < 10 THEN <<Digits[n + 1]>>
    ELSE IntToStr(n \div 10) \o <<Digits[(n % 10) + 1]>>

\* Python values that occur as query parameter values: int or str
IntV(n) == [t |-> "int", i |-> n, s |-> <<>>]
StrV(s) == [t |-> "str", i |-> 0, s |-> s]

\* str(v), as urlencode applies it to a non-bytes value
str(v) == IF v.t = "int" THEN IntToStr(v.i) ELSE v.s

\* characters quote_plus leaves alone: letters, digits and "_.-~"
AlwaysSafe ==
    {"a", "b", "c", "d", "e", "f", "g", "h", "i", "j", "k", "l", "m", "n",
     "o", "p", "q", "r", "s", "t", "u", "v", "w", "x", "y", "z", "K", "X",
     "0", "1", "2", "3", "4", "5", "6", "7", "8", "9", "_", ".", "-", "~"}

\* the %XX escape of a reserved character
PctEscape(c) ==
    CASE c = "&" -> <<"%", "2", "6">>
      [] c = "=" -> <<"%", "3", "D">>
      [] c = "/" -> <<"%", "2", "F">>
      [] c = "?" -> <<"%", "3", "F">>
      [] c = "+" -> <<"%", "2", "B">>
      [] c = "%" -> <<"%", "2", "5">>
      [] c = ":" -> <<"%", "3", "A">>

\* urllib.parse.quote_plus: safe characters as they are, " " as "+", the
\* rest percent-escaped
RECURSIVE quote_plus(_)
quote_plus(s) ==
    IF s = <<>> THEN <<>>
    ELSE LET c == Head(s)
             e == IF c \in AlwaysSafe THEN <<c>>
                  ELSE IF c = " " THEN <<"+">>
                  ELSE PctEscape(c)
         IN  e \o quote_plus(Tail(s))

\* urllib.parse.urlencode of a dict: k=v pairs in the dict's order, joined by &
RECURSIVE urlencode(_)
urlencode(d) ==
    IF d = <<>> THEN <<>>
    ELSE LET kv == quote_plus(Head(d).k) \o <<"=">> \o quote_plus(str(Head(d).v))
         IN  IF Len(d) = 1 THEN kv
             ELSE kv \o <<"&">> \o urlencode(Tail(d))

(***************************************************************************)
(* Python dict                                                             *)
(***************************************************************************)
HasKey(d, k) == \E i \in 1..Len(d) : d[i].k = k

DictGet(d, k) == d[CHOOSE i \in 1..Len(d) : d[i].k = k].v

DictSetAppendOnly(d, k, v) ==
    IF HasKey(d, k) THEN d ELSE Append(d, [k |-> k, v |-> v])

DictSetMoveToEnd(d, k, v) ==
    Append(SelectSeq(d, LAMBDA e : e.k # k), [k |-> k, v |-> v])

\* d[k] = v: an existing key keeps its position and takes the new value, a
\* new key goes to the end
DictSet(d, k, v) ==
    IF HasKey(d, k)
    THEN [i \in 1..Len(d) |-> IF d[i].k = k THEN [k |-> k, v |-> v] ELSE d[i]]
    ELSE Append(d, [k |-> k, v |-> v])

\* an optional dict argument: None, or a dict object
NoneParams == [none |-> TRUE, d |-> <<>>]
Params(d) == [none |-> FALSE, d |-> d]

(***************************************************************************)
(* The network and the values that come back from it                       *)
(***************************************************************************)
\* Python values a call returns, by type name and repr
PyNone == [t |-> "NoneType", repr |-> "None"]
NoReturn == [t |-> "", repr |-> ""]    \* the call raised: there is no result

BODY_EMPTY == ""
BODY_HTML == "<html>gateway</html>"
BODY_NULL == "null"
BODY_LIST == "[{\"id\":1,\"name\":\"Alice\"}]"

Bodies == {BODY_EMPTY, BODY_HTML, BODY_NULL, BODY_LIST}

\* status codes a response carries: success, redirection, client error, server
\* error, and one beyond the five classes (http.client takes 100..999)
Statuses == {200, 204, 304, 404, 500, 999}

\* what requests.request does with the one request it is given
Net ==
    [kind : {"ConnectionError", "Timeout"}, status : {0}, body : {BODY_EMPTY}]
    \cup [kind : {"response"}, status : Statuses, body : Bodies]

\* does the text parse as JSON?
IsJson(body) == body \in {BODY_NULL, BODY_LIST}

\* json.loads of a text that parses: JSON null is None, an array is a list
json_loads(body) ==
    CASE body = BODY_NULL -> PyNone
      [] body = BODY_LIST -> [t |-> "list", repr |-> "[{'id': 1, 'name': 'Alice'}]"]

\* Response.raise_for_status raises HTTPError for 4xx and 5xx
raise_for_status(status) == 400 <= status /\ status < 600

(***************************************************************************)
(* RESTClient                                                              *)
(***************************************************************************)
_build_url_copy(endpoint, params) ==
    LET p == IF params.none THEN <<>> ELSE params.d
        q == DictSet(p, S_api_key, StrV(api_key))
    IN  [url |-> base_url \o <<"/">> \o endpoint \o <<"?">> \o urlencode(q),
         params |-> p]

\* _build_url: the URL, and the contents of the params dict afterwards (the
\* assignment params["api_key"] = ... writes into the dict it was given)
_build_url(endpoint, params) ==
    LET p == IF params.none THEN <<>> ELSE params.d
        q == DictSet(p, S_api_key, StrV(api_key))
    IN  [url |-> base_url \o <<"/">> \o endpoint \o <<"?">> \o urlencode(q),
         params |-> q]

\* the exception the first try block catches, "" when there is none
RequestException(net) ==
    IF net.kind # "response" THEN net.kind
    ELSE IF raise_for_status(net.status) THEN "HTTPError"
    ELSE ""

_send_request_retry(method, endpoint, params, data, net) ==
    LET b == _build_url(endpoint, params)
        req == [method |-> method, url |-> b.url, json |-> data]
        e == RequestException(net)
    IN  IF e # ""
        THEN [requests |-> <<req, req>>, raised |-> "APIError", cause |-> e,
              result |-> NoReturn, params |-> b.params]
        ELSE [requests |-> <<req>>, raised |-> "", cause |-> "",
              result |-> IF IsJson(net.body) THEN json_loads(net.body) ELSE PyNone,
              params |-> b.params]

_send_request_strict(method, endpoint, params, data, net) ==
    LET b == _build_url(endpoint, params)
        req == [method |-> method, url |-> b.url, json |-> data]
        e == RequestException(net)
    IN  IF e # ""
        THEN [requests |-> <<req>>, raised |-> "APIError", cause |-> e,
              result |-> NoReturn, params |-> b.params]
        ELSE IF IsJson(net.body)
        THEN [requests |-> <<req>>, raised |-> "", cause |-> "",
              result |-> json_loads(net.body), params |-> b.params]
        ELSE [requests |-> <<req>>, raised |-> "JSONDecodeError", cause |-> "",
              result |-> NoReturn, params |-> b.params]

_send_request_emptydict(method, endpoint, params, data, net) ==
    LET b == _build_url(endpoint, params)
        req == [method |-> method, url |-> b.url, json |-> data]
        e == RequestException(net)
    IN  IF e # ""
        THEN [requests |-> <<req>>, raised |-> "APIError", cause |-> e,
              result |-> NoReturn, params |-> b.params]
        ELSE [requests |-> <<req>>, raised |-> "", cause |-> "",
              result |-> IF IsJson(net.body) THEN json_loads(net.body)
                         ELSE [t |-> "dict", repr |-> "{}"],
              params |-> b.params]

\* _send_request: the requests it issues, the exception it raises ("" when it
\* returns), the cause wrapped in the APIError, the value it returns, and the
\* params dict afterwards
_send_request(method, endpoint, params, data, net) ==
    LET b == _build_url(endpoint, params)
        req == [method |-> method, url |-> b.url, json |-> data]
        e == RequestException(net)
    IN  IF e # ""
        THEN [requests |-> <<req>>, raised |-> "APIError", cause |-> e,
              result |-> NoReturn, params |-> b.params]
        ELSE [requests |-> <<req>>, raised |-> "", cause |-> "",
              result |-> IF IsJson(net.body) THEN json_loads(net.body) ELSE PyNone,
              params |-> b.params]

DATA_NONE == "None"
DATA_JOHN == "{'name': 'John Doe', 'email': 'john.doe@example.com'}"

get(endpoint, params, net) == _send_request("GET", endpoint, params, DATA_NONE, net)
post(endpoint, data, net) == _send_request("POST", endpoint, NoneParams, data, net)
put(endpoint, data, net) == _send_request("PUT", endpoint, NoneParams, data, net)
delete(endpoint, net) == _send_request("DELETE", endpoint, NoneParams, DATA_NONE, net)

(***************************************************************************)
(* UserManager                                                             *)
(***************************************************************************)
DefaultPage == 1
DefaultPerPage == 10

\* f"users/{user_id}"
UserPath(user_id) == S_users \o <<"/">> \o IntToStr(user_id)

get_users_swapped(page, per_page, net) ==
    get(S_users, Params(<<[k |-> S_page, v |-> IntV(per_page)],
                          [k |-> S_per_page, v |-> IntV(page)]>>), net)

get_users(page, per_page, net) ==
    get(S_users, Params(<<[k |-> S_page, v |-> IntV(page)],
                          [k |-> S_per_page, v |-> IntV(per_page)]>>), net)

get_user(user_id, net) == get(UserPath(user_id), NoneParams, net)
create_user(user_data, net) == post(S_users, user_data, net)
update_user(user_id, user_data, net) == put(UserPath(user_id), user_data, net)
delete_user(user_id, net) == delete(UserPath(user_id), net)

(***************************************************************************)
(* Inputs                                                                  *)
(***************************************************************************)
BaseUrls == {<<"h", ":", "/", "/", "x">>}
\* a key with characters that are reserved in a query string
ApiKeys == {<<"k", "&", "q", "=", "X">>}

\* the generic operations are given the collection path; the paths with an
\* id in them come from the UserManager operations
Endpoints == {S_users}
UserIds == {12}

\* a dict a caller of get() builds: its own api_key entry ahead of another
\* entry, whose value spells a second api_key parameter.  (The caller's first
\* dict, callerParams, starts empty.)
FreshParams ==
    {<<[k |-> S_api_key, v |-> StrV(<<"X">>)],
       [k |-> S_q, v |-> StrV(<<"a", " ", "&">> \o S_api_key \o <<"=", "X">>)]>>}

Payloads == {DATA_NONE, DATA_JOHN}
UserData == {DATA_JOHN}

\* an optional int argument: omitted, or given
Omitted == [given |-> FALSE, v |-> 0]
Given(n) == [given |-> TRUE, v |-> n]
UsersArgs ==
    {[page |-> Omitted, per_page |-> Omitted],
     [page |-> Given(2), per_page |-> Omitted],
     [page |-> Given(3), per_page |-> Given(25)]}
Arg(a, default) == IF a.given THEN a.v ELSE default

NoCall ==
    [op |-> "", endpoint |-> <<>>, params |-> NoneParams, data |-> DATA_NONE,
     page |-> Omitted, per_page |-> Omitted, user_id |-> 0,
     net |-> [kind |-> "", status |-> 0, body |-> BODY_EMPTY],
     raised |-> "", cause |-> "", result |-> NoReturn]

NoFileCall ==
    [op |-> "", data |-> <<>>, fault |-> "", raised |-> "", cause |-> "",
     message |-> <<"", "">>, result |-> <<>>]

(***************************************************************************)
(* State machine of the client                                             *)
(***************************************************************************)
Init ==
    /\ base_url \in BaseUrls
    /\ api_key \in ApiKeys
    /\ callerParams = <<>>
    /\ sent = <<>>
    /\ ncalls = 0
    /\ last = NoCall
    /\ os_linesep = <<"\n">>
    /\ disk = [exists |-> FALSE, bytes |-> <<>>]
    /\ written = [valid |-> FALSE, s |-> <<>>]
    /\ flast = NoFileCall

\* a call returned or raised: r is what _send_request did
Finish(call, r) ==
    /\ sent' = sent \o r.requests
    /\ ncalls' = ncalls + 1
    /\ last' = [call EXCEPT !.raised = r.raised, !.cause = r.cause,
                            !.result = r.result]
    /\ UNCHANGED <<base_url, api_key>>
    /\ UNCHANGED fileVars

Get(endpoint, params, net) ==
    /\ ncalls < MaxCalls
    /\ LET r == get(endpoint, params, net)
       IN  /\ Finish([NoCall EXCEPT !.op = "get", !.endpoint = endpoint,
                                    !.params = params, !.net = net], r)
           /\ callerParams' = IF params.none THEN callerParams ELSE r.params

Post(endpoint, data, net) ==
    /\ ncalls < MaxCalls
    /\ Finish([NoCall EXCEPT !.op = "post", !.endpoint = endpoint,
                             !.data = data, !.net = net],
              post(endpoint, data, net))
    /\ UNCHANGED callerParams

Put(endpoint, data, net) ==
    /\ ncalls < MaxCalls
    /\ Finish([NoCall EXCEPT !.op = "put", !.endpoint = endpoint,
                             !.data = data, !.net = net],
              put(endpoint, data, net))
    /\ UNCHANGED callerParams

Delete(endpoint, net) ==
    /\ ncalls < MaxCalls
    /\ Finish([NoCall EXCEPT !.op = "delete", !.endpoint = endpoint, !.net = net],
              delete(endpoint, net))
    /\ UNCHANGED callerParams

GetUsers(page, per_page, net) ==
    /\ ncalls < MaxCalls
    /\ Finish([NoCall EXCEPT !.op = "get_users", !.page = page,
                             !.per_page = per_page, !.net = net],
              get_users(Arg(page, DefaultPage), Arg(per_page, DefaultPerPage), net))
    /\ UNCHANGED callerParams

GetUser(user_id, net) ==
    /\ ncalls < MaxCalls
    /\ Finish([NoCall EXCEPT !.op = "get_user", !.user_id = user_id, !.net = net],
              get_user(user_id, net))
    /\ UNCHANGED callerParams

CreateUser(user_data, net) ==
    /\ ncalls < MaxCalls
    /\ Finish([NoCall EXCEPT !.op = "create_user", !.data = user_data, !.net = net],
              create_user(user_data, net))
    /\ UNCHANGED callerParams

UpdateUser(user_id, user_data, net) ==
    /\ ncalls < MaxCalls
    /\ Finish([NoCall EXCEPT !.op = "update_user", !.user_id = user_id,
                             !.data = user_data, !.net = net],
              update_user(user_id, user_data, net))
    /\ UNCHANGED callerParams

DeleteUser(user_id, net) ==
    /\ ncalls < MaxCalls
    /\ Finish([NoCall EXCEPT !.op = "delete_user", !.user_id = user_id, !.net = net],
              delete_user(user_id, net))
    /\ UNCHANGED callerParams

\* the params argument of get(): omitted, a dict built for this call, or the
\* dict an earlier call was given
ParamArgs ==
    {NoneParams} \cup {Params(d) : d \in FreshParams} \cup {Params(callerParams)}

Next ==
    \/ \E e \in Endpoints, p \in ParamArgs, net \in Net : Get(e, p, net)
    \/ \E e \in Endpoints, d \in Payloads, net \in Net : Post(e, d, net)
    \/ \E e \in Endpoints, d \in Payloads, net \in Net : Put(e, d, net)
    \/ \E e \in Endpoints, net \in Net : Delete(e, net)
    \/ \E a \in UsersArgs, net \in Net : GetUsers(a.page, a.per_page, net)
    \/ \E id \in UserIds, net \in Net : GetUser(id, net)
    \/ \E d \in UserData, net \in Net : CreateUser(d, net)
    \/ \E id \in UserIds, d \in UserData, net \in Net : UpdateUser(id, d, net)
    \/ \E id \in UserIds, net \in Net : DeleteUser(id, net)

Spec == Init /\ [][Next]_vars

(***************************************************************************)
(* OutputFile: text-mode file I/O                                          *)
(***************************************************************************)
\* characters of a str: a letter, line feed, carriage return, a non-ASCII
\* letter (U+00E9) and a lone surrogate (U+DC80), which no codec encodes
CH_E9 == "U+00E9"
CH_SUR == "U+DC80"
TextChars == {"a", "\n", "\r", CH_E9, CH_SUR}

Strings(n) == UNION {[1..k -> TextChars] : k \in 0..n}

\* str.encode("utf-8") of one character; <<>> stands for UnicodeEncodeError
EncodeChar(c) ==
    IF c = CH_E9 THEN <<"xC3", "xA9">> ELSE <<c>>

CanEncode(s) == \A i \in 1..Len(s) : s[i] # CH_SUR

RECURSIVE encode(_)
encode(s) ==
    IF s = <<>> THEN <<>> ELSE EncodeChar(Head(s)) \o encode(Tail(s))

\* bytes.decode("utf-8"): [ok, s]; not ok stands for UnicodeDecodeError
RECURSIVE decode(_)
decode(b) ==
    IF b = <<>> THEN [ok |-> TRUE, s |-> <<>>]
    ELSE IF Head(b) \in {"a", "\n", "\r"}
    THEN LET r == decode(Tail(b))
         IN  [ok |-> r.ok, s |-> <<Head(b)>> \o r.s]
    ELSE IF Head(b) = "xC3" /\ Len(b) >= 2 /\ b[2] = "xA9"
    THEN LET r == decode(Tail(Tail(b)))
         IN  [ok |-> r.ok, s |-> <<CH_E9>> \o r.s]
    ELSE [ok |-> FALSE, s |-> <<>>]

\* open(path, "w") has newline=None: each "\n" written becomes os.linesep
RECURSIVE WriteNewlines(_)
WriteNewlines(s) ==
    IF s = <<>> THEN <<>>
    ELSE (IF Head(s) = "\n" THEN os_linesep ELSE <<Head(s)>>)
         \o WriteNewlines(Tail(s))

\* open(path, "r") has newline=None: "\r\n" and "\r" read become "\n"
RECURSIVE ReadNewlines(_)
ReadNewlines(s) ==
    IF s = <<>> THEN <<>>
    ELSE IF Head(s) = "\r" /\ Len(s) >= 2 /\ s[2] = "\n"
    THEN <<"\n">> \o ReadNewlines(Tail(Tail(s)))
    ELSE IF Head(s) = "\r" THEN <<"\n">> \o ReadNewlines(Tail(s))
    ELSE <<Head(s)>> \o ReadNewlines(Tail(s))

\* the exception classes "except IOError" catches (IOError is OSError)
IsIOError(exc) == exc \in {"FileNotFoundError", "PermissionError", "OSError"}

\* str(e) of the operating system's errors
StrError(exc) ==
    CASE exc = "FileNotFoundError" -> "[Errno 2] No such file or directory"
      [] exc = "PermissionError" -> "[Errno 13] Permission denied"
      [] exc = "OSError" -> "[Errno 5] Input/output error"
      [] OTHER -> exc

\* what the file system does to a write: nothing, no such directory, no
\* permission, or an error after n bytes went out
WriteFaults == {"none", "ENOENT", "EACCES", "EIO"}
ReadFaults == {"none", "EACCES", "EIO"}

\* the try block of write_data: [disk, exc], exc = "" when nothing is raised
WriteTry(data, fault, n) ==
    IF fault = "ENOENT" THEN [disk |-> disk, exc |-> "FileNotFoundError"]
    ELSE IF fault = "EACCES" THEN [disk |-> disk, exc |-> "PermissionError"]
    ELSE IF ~CanEncode(data)
    THEN [disk |-> [exists |-> TRUE, bytes |-> <<>>], exc |-> "UnicodeEncodeError"]
    ELSE LET b == encode(WriteNewlines(data))
         IN  IF fault = "EIO"
             THEN [disk |-> [exists |-> TRUE, bytes |-> SubSeq(b, 1, n)],
                   exc |-> "OSError"]
             ELSE [disk |-> [exists |-> TRUE, bytes |-> b], exc |-> ""]

\* write_data: the file afterwards and the exception that leaves the method
write_data(data, fault, n) ==
    LET t == WriteTry(data, fault, n)
    IN  IF t.exc = "" THEN [disk |-> t.disk, raised |-> "", cause |-> "",
                            message |-> <<"", "">>]
        ELSE IF IsIOError(t.exc)
        THEN [disk |-> t.disk, raised |-> "FileHandlingError", cause |-> t.exc,
              message |-> <<"Could not write to file: ", StrError(t.exc)>>]
        ELSE [disk |-> t.disk, raised |-> t.exc, cause |-> "",
              message |-> <<"", StrError(t.exc)>>]

\* the try block of read_data: [s, exc]
ReadTry(fault) ==
    IF ~disk.exists THEN [s |-> <<>>, exc |-> "FileNotFoundError"]
    ELSE IF fault = "EACCES" THEN [s |-> <<>>, exc |-> "PermissionError"]
    ELSE IF fault = "EIO" THEN [s |-> <<>>, exc |-> "OSError"]
    ELSE LET d == decode(disk.bytes)
         IN  IF d.ok THEN [s |-> ReadNewlines(d.s), exc |-> ""]
             ELSE [s |-> <<>>, exc |-> "UnicodeDecodeError"]

\* read_data: the string returned and the exception that leaves the method
read_data(fault) ==
    LET t == ReadTry(fault)
    IN  IF t.exc = "" THEN [result |-> t.s, raised |-> "", cause |-> "",
                            message |-> <<"", "">>]
        ELSE IF IsIOError(t.exc)
        THEN [result |-> <<>>, raised |-> "FileHandlingError", cause |-> t.exc,
              message |-> <<"Could not read from file: ", StrError(t.exc)>>]
        ELSE [result |-> <<>>, raised |-> t.exc, cause |-> "",
              message |-> <<"", StrError(t.exc)>>]

(***************************************************************************)
(* State machine of the output file                                        *)
(***************************************************************************)
\* what the path holds before the program runs: nothing, an empty file, a
\* file longer than any string written, a file that is not UTF-8
InitialFiles ==
    {[exists |-> FALSE, bytes |-> <<>>],
     [exists |-> TRUE, bytes |-> <<>>],
     [exists |-> TRUE, bytes |-> <<"a", "\r", "\n", "a", "a">>],
     [exists |-> TRUE, bytes |-> <<"a", "xFF">>]}

FileInit ==
    /\ base_url \in BaseUrls
    /\ api_key \in ApiKeys
    /\ callerParams = <<>>
    /\ sent = <<>>
    /\ ncalls = 0
    /\ last = NoCall
    /\ os_linesep \in {<<"\n">>, <<"\r", "\n">>}
    /\ disk \in InitialFiles
    /\ written = [valid |-> FALSE, s |-> <<>>]
    /\ flast = NoFileCall

WriteData(data, fault, n) ==
    LET r == write_data(data, fault, n)
    IN  /\ disk' = r.disk
        /\ written' = [valid |-> r.raised = "",
                       s |-> IF r.raised = "" THEN data ELSE <<>>]
        /\ flast' = [op |-> "write_data", data |-> data, fault |-> fault,
                     raised |-> r.raised, cause |-> r.cause,
                     message |-> r.message, result |-> <<>>]
        /\ UNCHANGED os_linesep
        /\ UNCHANGED httpVars

ReadData(fault) ==
    LET r == read_data(fault)
    IN  /\ flast' = [op |-> "read_data", data |-> <<>>, fault |-> fault,
                     raised |-> r.raised, cause |-> r.cause,
                     message |-> r.message, result |-> r.result]
        /\ UNCHANGED <<os_linesep, disk, written>>
        /\ UNCHANGED httpVars

FileNext ==
    \/ \E data \in Strings(MaxLen), fault \in WriteFaults :
           \E n \in (IF fault = "EIO" THEN 0..Len(encode(WriteNewlines(data))) ELSE {0}) :
               WriteData(data, fault, n)
    \/ \E fault \in ReadFaults : ReadData(fault)

FileSpec == FileInit /\ [][FileNext]_vars

(***************************************************************************)
(* Reading a URL back: what a server sees in the request line              *)
(***************************************************************************)
\* index of the first c in s, 0 when there is none
Find(s, c) ==
    IF \E i \in 1..Len(s) : s[i] = c
    THEN CHOOSE i \in 1..Len(s) : s[i] = c /\ \A j \in 1..(i - 1) : s[j] # c
    ELSE 0

RECURSIVE Split(_, _)
Split(s, c) ==
    LET i == Find(s, c)
    IN  IF i = 0 THEN <<s>>
        ELSE <<SubSeq(s, 1, i - 1)>> \o Split(SubSeq(s, i + 1, Len(s)), c)

Unescape(h1, h2) ==
    CASE h1 = "2" /\ h2 = "6" -> "&"
      [] h1 = "3" /\ h2 = "D" -> "="
      [] h1 = "2" /\ h2 = "F" -> "/"
      [] h1 = "3" /\ h2 = "F" -> "?"
      [] h1 = "2" /\ h2 = "B" -> "+"
      [] h1 = "2" /\ h2 = "5" -> "%"
      [] h1 = "3" /\ h2 = "A" -> ":"

RECURSIVE Unquote(_)
Unquote(s) ==
    IF s = <<>> THEN <<>>
    ELSE IF Head(s) = "+" THEN <<" ">> \o Unquote(Tail(s))
    ELSE IF Head(s) = "%" /\ Len(s) >= 3
    THEN <<Unescape(s[2], s[3])>> \o Unquote(SubSeq(s, 4, Len(s)))
    ELSE <<Head(s)>> \o Unquote(Tail(s))

\* the part of the URL before the first "?"
PathOf(url) == SubSeq(url, 1, Find(url, "?") - 1)

\* the query parameters of the URL, in order, as [k, v] of decoded strings
ParseQuery(url) ==
    LET qs == SubSeq(url, Find(url, "?") + 1, Len(url))
        parts == IF qs = <<>> THEN <<>> ELSE Split(qs, "&")
    IN  [j \in 1..Len(parts) |->
            LET e == Find(parts[j], "=")
            IN  IF e = 0 THEN [k |-> Unquote(parts[j]), v |-> <<>>]
                ELSE [k |-> Unquote(SubSeq(parts[j], 1, e - 1)),
                      v |-> Unquote(SubSeq(parts[j], e + 1, Len(parts[j])))]]

\* the request of the last call
LastRequest == sent[Len(sent)]
LastQuery == ParseQuery(LastRequest.url)

Called == last.op # ""
Returned == Called /\ last.raised = ""

\* the dict the caller of the last call handed over, <<>> when it gave none
GivenDict ==
    IF last.op = "get" /\ ~last.params.none THEN last.params.d
    ELSE IF last.op = "get_users"
    THEN <<[k |-> S_page, v |-> IntV(IF last.page.given THEN last.page.v ELSE 1)],
           [k |-> S_per_page,
            v |-> IntV(IF last.per_page.given THEN last.per_page.v ELSE 10)]>>
    ELSE <<>>

\* the entries of a dict, or of a parsed query, that are not named api_key
Others(d) == SelectSeq(d, LAMBDA e : e.k # S_api_key)

\* a dict's entries as they read in a query: name and str(value)
AsText(d) == [i \in 1..Len(d) |-> [k |-> d[i].k, v |-> str(d[i].v)]]

(***************************************************************************)
(* C1: every request issued carries exactly one api_key query parameter,   *)
(* and its value is the key the client was constructed with; no api_key    *)
(* value supplied by the caller reaches the URL.                           *)
(***************************************************************************)
C1_ExactlyOneApiKey ==
    \A i \in 1..Len(sent) :
        LET q == ParseQuery(sent[i].url)
        IN  /\ Cardinality({j \in 1..Len(q) : q[j].k = S_api_key}) = 1
            /\ \A j \in 1..Len(q) : q[j].k = S_api_key => q[j].v = api_key

\* a get whose params carried the caller's own, different api_key entry
C1_Witness ==
    /\ last.op = "get"
    /\ ~last.params.none
    /\ HasKey(last.params.d, S_api_key)
    /\ DictGet(last.params.d, S_api_key) # StrV(api_key)
    /\ Len(sent) > 0

(***************************************************************************)
(* C2, as claimed: in the query string api_key comes after every parameter *)
(* the caller supplied, also when the caller's dict has an entry named     *)
(* api_key ahead of other entries, and the caller's other parameters are   *)
(* there in their order.                                                   *)
(***************************************************************************)
C2_ApiKeyLast ==
    Called =>
        /\ LastQuery[Len(LastQuery)].k = S_api_key
        /\ Others(LastQuery) = AsText(Others(GivenDict))

(***************************************************************************)
(* C2, amended: the query string has the caller's parameters in their      *)
(* order; api_key comes after all of them when the caller's dict has no    *)
(* entry named api_key, and otherwise stands where the caller's api_key    *)
(* entry stood, with the configured key as its value.                      *)
(***************************************************************************)
C2_ApiKeyInPlace ==
    Called =>
        LET d == GivenDict
            q == LastQuery
        IN  /\ Others(q) = AsText(Others(d))
            /\ IF HasKey(d, S_api_key)
               THEN /\ Len(q) = Len(d)
                    /\ \A i \in 1..Len(d) :
                           d[i].k = S_api_key => q[i] = [k |-> S_api_key, v |-> api_key]
               ELSE /\ Len(q) = Len(d) + 1
                    /\ q[Len(q)] = [k |-> S_api_key, v |-> api_key]

\* a get whose params had an api_key entry ahead of another entry
C2_Witness ==
    /\ last.op = "get"
    /\ ~last.params.none
    /\ Len(last.params.d) >= 2
    /\ last.params.d[1].k = S_api_key
    /\ LastQuery[1].k = S_api_key
    /\ LastQuery[Len(LastQuery)].k # S_api_key

(***************************************************************************)
(* C3, as claimed: a call whose request met a transport failure, or a      *)
(* response with a status outside 200..399, raises APIError and returns    *)
(* nothing, whatever the body.                                             *)
(***************************************************************************)
C3_FailureRaises ==
    (Called /\ (last.net.kind # "response" \/ last.net.status \notin 200..399))
        => (last.raised = "APIError" /\ last.result = NoReturn)

(***************************************************************************)
(* C4: a call whose response has a status in 200..399 never raises; it     *)
(* returns the decoded value when the body is JSON (None for null, the     *)
(* list for the array) and None when the body is empty or not JSON.        *)
(***************************************************************************)
C4_SuccessReturns ==
    (Called /\ last.net.kind = "response" /\ last.net.status \in 200..399) =>
        /\ last.raised = ""
        /\ last.net.body = BODY_LIST =>
               last.result = [t |-> "list", repr |-> "[{'id': 1, 'name': 'Alice'}]"]
        /\ last.net.body = BODY_NULL => last.result = PyNone
        /\ last.net.body \in {BODY_EMPTY, BODY_HTML} => last.result = PyNone

\* delete_user answered by 204 with an empty body returned None
C4_Witness ==
    /\ last.op = "delete_user"
    /\ last.net.kind = "response"
    /\ last.net.status = 204
    /\ last.net.body = BODY_EMPTY
    /\ last.raised = ""
    /\ last.result = PyNone

(***************************************************************************)
(* C5, as claimed: a call that returns gives None exactly when the body    *)
(* was empty or not JSON, so the result tells whether the response carried *)
(* a JSON body, for every JSON body including null.                        *)
(***************************************************************************)
C5_MarkerOnlyForNoJson ==
    Returned => (last.result = PyNone <=> ~IsJson(last.net.body))

(***************************************************************************)
(* C5, amended: a call that returns gives None exactly when the body was   *)
(* empty, not JSON, or the JSON scalar null; for every other JSON body the *)
(* result is the decoded value and differs from None.                      *)
(***************************************************************************)
C5_MarkerForNoJsonOrNull ==
    Returned =>
        /\ last.result = PyNone <=>
               (~IsJson(last.net.body) \/ last.net.body = BODY_NULL)
        /\ last.net.body = BODY_LIST => last.result.t = "list"

\* a response with the body null was returned as None
C5_Witness ==
    /\ Returned
    /\ last.net.status = 200
    /\ last.net.body = BODY_NULL
    /\ last.result = PyNone

(***************************************************************************)
(* C6: every call issues exactly one request, appended to those already    *)
(* issued, with the method of the operation called: after n calls there    *)
(* are n requests, in call order, whether calls fail or repeat.            *)
(***************************************************************************)
MethodOf(op) ==
    CASE op \in {"get", "get_users", "get_user"} -> "GET"
      [] op \in {"post", "create_user"} -> "POST"
      [] op \in {"put", "update_user"} -> "PUT"
      [] op \in {"delete", "delete_user"} -> "DELETE"

C6_OneRequestPerCall ==
    [][/\ ncalls' = ncalls + 1
       /\ Len(sent') = ncalls'
       /\ SubSeq(sent', 1, Len(sent)) = sent
       /\ Len(sent') = Len(sent) + 1
       /\ sent'[Len(sent')].method = MethodOf(last'.op)]_vars

\* the same request issued twice, the second time failing
C6_Witness ==
    /\ ncalls = 2
    /\ Len(sent) = 2
    /\ sent[1] = sent[2]
    /\ last.raised = "APIError"

(***************************************************************************)
(* C7: each UserManager operation issues the one request fixed for it and  *)
(* gives back what the transport gives: get_users is GET users with the    *)
(* query page, per_page (1 and 10 when omitted) and no body; get_user is   *)
(* GET users/{id}; create_user is POST users with the data as body;        *)
(* update_user is PUT users/{id} with the data as body; delete_user is     *)
(* DELETE users/{id} with no body; the last four have api_key as their     *)
(* only query parameter.                                                   *)
(***************************************************************************)
UsersUrl == base_url \o <<"/">> \o S_users
UserUrl(id) == UsersUrl \o <<"/">> \o IntToStr(id)
KeyOnly == <<[k |-> S_api_key, v |-> api_key]>>

C7_UserManagerPassThrough ==
    /\ last.op = "get_users" =>
           LET pg == IF last.page.given THEN last.page.v ELSE 1
               pp == IF last.per_page.given THEN last.per_page.v ELSE 10
               t == get(S_users, Params(<<[k |-> S_page, v |-> IntV(pg)],
                                          [k |-> S_per_page, v |-> IntV(pp)]>>),
                        last.net)
           IN  /\ LastRequest.method = "GET"
               /\ PathOf(LastRequest.url) = UsersUrl
               /\ LastQuery = <<[k |-> S_page, v |-> IntToStr(pg)],
                               [k |-> S_per_page, v |-> IntToStr(pp)]>> \o KeyOnly
               /\ LastRequest.json = DATA_NONE
               /\ last.raised = t.raised /\ last.result = t.result
    /\ last.op = "get_user" =>
           LET t == get(S_users \o <<"/">> \o IntToStr(last.user_id), NoneParams, last.net)
           IN  /\ LastRequest.method = "GET"
               /\ PathOf(LastRequest.url) = UserUrl(last.user_id)
               /\ LastQuery = KeyOnly
               /\ LastRequest.json = DATA_NONE
               /\ last.raised = t.raised /\ last.result = t.result
    /\ last.op = "create_user" =>
           LET t == post(S_users, last.data, last.net)
           IN  /\ LastRequest.method = "POST"
               /\ PathOf(LastRequest.url) = UsersUrl
               /\ LastQuery = KeyOnly
               /\ LastRequest.json = last.data
               /\ last.raised = t.raised /\ last.result = t.result
    /\ last.op = "update_user" =>
           LET t == put(S_users \o <<"/">> \o IntToStr(last.user_id), last.data, last.net)
           IN  /\ LastRequest.method = "PUT"
               /\ PathOf(LastRequest.url) = UserUrl(last.user_id)
               /\ LastQuery = KeyOnly
               /\ LastRequest.json = last.data
               /\ last.raised = t.raised /\ last.result = t.result
    /\ last.op = "delete_user" =>
           LET t == delete(S_users \o <<"/">> \o IntToStr(last.user_id), last.net)
           IN  /\ LastRequest.method = "DELETE"
               /\ PathOf(LastRequest.url) = UserUrl(last.user_id)
               /\ LastQuery = KeyOnly
               /\ LastRequest.json = DATA_NONE
               /\ last.raised = t.raised /\ last.result = t.result

\* get_users() with both arguments omitted returned the decoded list
C7_Witness ==
    /\ last.op = "get_users"
    /\ ~last.page.given
    /\ ~last.per_page.given
    /\ last.raised = ""
    /\ last.result.t = "list"

(***************************************************************************)
(* C8, as claimed: read_data after write_data(S), with no write between,   *)
(* returns exactly S, for any string S.                                    *)
(***************************************************************************)
C8_WriteReadRoundTrip ==
    (flast.op = "read_data" /\ flast.raised = "" /\ written.valid)
        => flast.result = written.s

(***************************************************************************)
(* C9, as claimed: whenever write_data or read_data fails, it fails with   *)
(* FileHandlingError carrying the message of the cause, and with no other  *)
(* kind of error.                                                          *)
(***************************************************************************)
C9_OnlyFileHandlingError ==
    (flast.op # "" /\ flast.raised # "") =>
        /\ flast.raised = "FileHandlingError"
        /\ flast.message[2] = StrError(flast.cause)

(***************************************************************************)
(* C10: no call changes the client's base_url or api_key; and a get that   *)
(* is given a dict leaves in that same dict an entry api_key holding the   *)
(* configured key (added, or written over the caller's own), with every    *)
(* other entry as it was, so a later call given the dict finds the key.    *)
(***************************************************************************)
C10_ClientFrameCallerDict ==
    [][/\ base_url' = base_url
       /\ api_key' = api_key
       /\ (last'.op = "get" /\ ~last'.params.none) =>
              /\ HasKey(callerParams', S_api_key)
              /\ DictGet(callerParams', S_api_key) = StrV(api_key)
              /\ Others(callerParams') = Others(last'.params.d)
              /\ Len(callerParams') =
                     IF HasKey(last'.params.d, S_api_key)
                     THEN Len(last'.params.d) ELSE Len(last'.params.d) + 1]_vars

\* a second get was given the dict of the first, which held the client's key
C10_Witness ==
    /\ ncalls = 2
    /\ last.op = "get"
    /\ ~last.params.none
    /\ HasKey(last.params.d, S_api_key)
    /\ DictGet(last.params.d, S_api_key) = StrV(api_key)
    /\ callerParams = last.params.d

====
